---- MODULE Spec2Model ----
(***************************************************************************)
(* Book Directory API (index.js): an Express application over a Prisma     *)
(* client.  The store holds Book rows, Author rows (unique name) and the   *)
(* implicit join table _AuthorToBook.  Every request is an async handler;  *)
(* each action below is one store call of one request together with the    *)
(* synchronous continuation that runs when that call settles (up to the    *)
(* next await or to the response).  Store calls of different requests      *)
(* interleave freely: the application takes no lock and opens no           *)
(* transaction.  Any store call may also fail (connectivity).              *)
(***************************************************************************)
EXTENDS Integers, Sequences, FiniteSets, TLC

\* ---- bounds of the model ----
MaxRequests == 2
MaxAuthors == 2

Procs == {1, 2}
Names == {"A", "B"}
\* the scalar fields are copied verbatim from the body: one value per verb
\* is enough to see whether an update wrote them
BodyTitle(k) == IF k = "put" THEN "t2" ELSE "t1"
Kinds == {"list", "get", "post", "put", "delete"}

VARIABLES books, authors, links, bookSeq, authorSeq, started, req

store == <<books, authors, links, bookSeq, authorSeq>>
vars == <<books, authors, links, bookSeq, authorSeq, started, req>>

\* ---- helpers ----
Range(s) == {s[k] : k \in 1..Len(s)}

NameLists == UNION {[1..n -> Names] : n \in 0..MaxAuthors}

NoAuthors == [b \in {} |-> {}]

\* ids of the authors linked to book b in join table L
LinkedIds(L, b) == {l[2] : l \in {x \in L : x[1] = b}}

\* authors.map(author => author.name)
AuthorNames(A, ids) == {a.name : a \in {x \in A : x.id \in ids}}

BookAuthorNames(L, A, b) == AuthorNames(A, LinkedIds(L, b))

\* prisma.author.findUnique({ where: { name } })
AuthorByName(A, n) == {a \in A : a.name = n}

IdleReq ==
    [pc |-> "idle", kind |-> "list", id |-> 1, title |-> "t1",
     hasAuthors |-> FALSE, names |-> <<>>, acoc |-> <<>>, toRemove |-> {},
     status |-> 0, respBooks |-> {}, respAuthors |-> NoAuthors,
     respCount |-> 0, err |-> "none", overlap |-> FALSE]

\* The database file outlives the process: the server starts on whatever
\* earlier runs left in it.  Each content below is one the handlers produce.
EmptyStore ==
    [books |-> [b \in {} |-> "t1"], authors |-> {}, links |-> {},
     bookSeq |-> 0, authorSeq |-> 0]

\* after POST /books {title: "t1", authors: ["A"]}
OneAuthorStore ==
    [books |-> (1 :> "t1"), authors |-> {[id |-> 1, name |-> "A"]},
     links |-> {<<1, 1>>}, bookSeq |-> 1, authorSeq |-> 1]

\* after POST /books {title: "t1", authors: ["A", "B"]}
TwoAuthorStore ==
    [books |-> (1 :> "t1"),
     authors |-> {[id |-> 1, name |-> "A"], [id |-> 2, name |-> "B"]},
     links |-> {<<1, 1>>, <<1, 2>>}, bookSeq |-> 1, authorSeq |-> 2]

InitStores == {EmptyStore, OneAuthorStore, TwoAuthorStore}

Init ==
    /\ \E s \in InitStores :
        /\ books = s.books
        /\ authors = s.authors
        /\ links = s.links
        /\ bookSeq = s.bookSeq
        /\ authorSeq = s.authorSeq
    /\ started = 0
    /\ req = [r \in Procs |-> IdleReq]

\* ---- the handlers' synchronous code ----

\* what is left of a request once its handler has returned: the request line
\* and what went on the wire; the body and the handler's locals are gone
Returned(q) ==
    [q EXCEPT !.pc = "done", !.title = "t1", !.hasAuthors = FALSE,
              !.names = <<>>, !.acoc = <<>>, !.toRemove = {}]

\* res.json(...) / res.status(code).json(...): one more response on the wire
Respond(q, code, ids, auth) ==
    [Returned(q) EXCEPT !.status = code, !.respBooks = ids,
                        !.respAuthors = auth, !.respCount = @ + 1]

\* faulty variant: the failure leaves the handler, no response is written
FailEscapes(q, e) == [Returned(q) EXCEPT !.err = e]

\* catch (error) { console.error(error); res.status(500).json({ error }) }
Fail(q, e) == [Respond(q, 500, {}, NoAuthors) EXCEPT !.err = e]

\* return res.status(404).json({ error: 'Book not found' })
NotFound(q) == Respond(q, 404, {}, NoAuthors)

\* faulty variant: the guard lets every id through
NeverMissing(B, b) == FALSE

\* if (!book) after prisma.book.findUnique({ where: { id } })
BookMissing(B, b) == b \notin DOMAIN B

\* faulty variant: the check of the author list is dropped
NeverAuthorsMissing(q) == FALSE

\* if (!authors || authors.length === 0)
AuthorsMissing(q) == ~q.hasAuthors \/ Len(q.names) = 0

\* the name the find-or-create loop is at: one id is pushed per iteration
CurrentName(q) == q.names[Len(q.acoc) + 1]

\* for (let authorName of authors): the next lookup, or the call after the loop
LoopNext(q) ==
    [q EXCEPT !.pc = IF Len(q.acoc) < Len(q.names) THEN "find"
                     ELSE IF q.kind = "post" THEN "post_create"
                     ELSE "put_update"]

\* authorConnectOrCreate.push({ id: author.id })
Resolved(q, aid) == LoopNext([q EXCEPT !.acoc = Append(q.acoc, aid)])

\* the handler's code up to its first await
EnterHandler(q) ==
    CASE q.kind = "list" -> [q EXCEPT !.pc = "list"]
      [] q.kind = "get" -> [q EXCEPT !.pc = "get_find"]
      [] q.kind = "delete" -> [q EXCEPT !.pc = "delete"]
      [] q.kind = "post" ->
            IF q.hasAuthors
            THEN LoopNext(q)
            ELSE [q EXCEPT !.pc = "post_create"]
      [] q.kind = "put" ->
            IF AuthorsMissing(q)
            THEN Fail(q, "validation")
            ELSE LoopNext(q)

\* faulty variant: nothing is ever disconnected
RemoveNone(current, connected) == {}

\* faulty variant: every linked author is disconnected
RemoveAll(current, connected) == current

\* currentAuthorIds.filter(id => !authorConnectOrCreate.some(a => a.id === id))
AuthorsToRemove(current, connected) ==
    {a \in current : a \notin Range(connected)}

\* ---- the store ----

\* faulty variant: the unique index on Author.name is missing
NoUniqueIndex(A, n) == FALSE

\* CREATE UNIQUE INDEX "Author_name_key" ON "Author"("name")
UniqueViolation(A, n) == AuthorByName(A, n) # {}

\* faulty variant: read-after-conflict, the loop goes on with the existing author
CreateRetried(q) ==
    Resolved(q, (CHOOSE a \in AuthorByName(authors, CurrentName(q)) : TRUE).id)

\* prisma.author.create rejects: the error reaches the handler's catch
CreateRejected(q) == Fail(q, "P2002")

\* faulty variant: the connect list is ignored
ConnectNone(L, b, ids) == L

\* authors: { connect: [...] }: idempotent inserts into _AuthorToBook
ConnectLinks(L, b, ids) == L \cup {<<b, a>> : a \in ids}

\* authors: { disconnect: [...] }
DisconnectLinks(L, b, ids) == L \ {<<b, a>> : a \in ids}

\* faulty variant: the join rows survive the book
CascadeNone(L, b) == L

\* _AuthorToBook_B_fkey ... ON DELETE CASCADE
CascadeLinks(L, b) == {l \in L : l[1] # b}

\* faulty variant: deleting a book deletes its authors too
AuthorsCascaded(A, L, b) == {a \in A : a.id \notin LinkedIds(L, b)}

\* deleting a Book row touches no Author row (the cascade is on the join table)
AuthorsAfterBookDelete(A, L, b) == A

\* history: another request changed the links of book b while a PUT on b was
\* between its connect step and its response
Disturb(r, b, rq) ==
    [p \in Procs |->
        IF p # r /\ rq[p].kind = "put" /\ rq[p].id = b
           /\ rq[p].pc \in {"disconnect", "reread"}
        THEN [rq[p] EXCEPT !.overlap = TRUE]
        ELSE rq[p]]

\* ---- actions ----

\* a request arrives; list and create have no guard and run to their first await
Start(r) ==
    /\ req[r].pc \in {"idle", "done"}
    /\ started < MaxRequests
    /\ started' = started + 1
    /\ \E k \in Kinds, b \in 1..(bookSeq + 1), h \in BOOLEAN, ns \in NameLists :
        /\ k \in {"list", "post"} => b = 1
        /\ k \in {"list", "get", "delete"} => ~h
        /\ ~h => ns = <<>>
        /\ LET q == [IdleReq EXCEPT !.kind = k, !.id = b, !.title = BodyTitle(k),
                                    !.hasAuthors = h, !.names = ns]
           IN  req' = [req EXCEPT ![r] =
                          IF k \in {"list", "post"}
                          THEN EnterHandler(q)
                          ELSE [q EXCEPT !.pc = "guard"]]
    /\ UNCHANGED store

\* any store call may reject (connectivity): the handler's catch answers 500
StoreFails(r) ==
    /\ req[r].pc \notin {"idle", "done"}
    /\ req' = [req EXCEPT ![r] = Fail(@, "store")]
    /\ UNCHANGED <<store, started>>

\* bookExistsMiddleware
Guard(r) ==
    /\ req[r].pc = "guard"
    /\ \/ /\ BookMissing(books, req[r].id)
          /\ req' = [req EXCEPT ![r] = NotFound(@)]
       \/ /\ ~BookMissing(books, req[r].id)
          /\ req' = [req EXCEPT ![r] = EnterHandler(@)]
    /\ UNCHANGED <<store, started>>

\* GET /books
List(r) ==
    /\ req[r].pc = "list"
    /\ req' = [req EXCEPT ![r] =
                  Respond(@, 200, DOMAIN books,
                          [b \in DOMAIN books |-> BookAuthorNames(links, authors, b)])]
    /\ UNCHANGED <<store, started>>

\* GET /books/:id: findUnique with the authors, then book.authors.map
GetFind(r) ==
    /\ req[r].pc = "get_find"
    /\ LET b == req[r].id
       IN  \/ /\ b \notin DOMAIN books
              /\ req' = [req EXCEPT ![r] = Fail(@, "TypeError")]
           \/ /\ b \in DOMAIN books
              /\ req' = [req EXCEPT ![r] =
                            Respond(@, 200, {b},
                                    b :> BookAuthorNames(links, authors, b))]
    /\ UNCHANGED <<store, started>>

\* prisma.author.findUnique({ where: { name: authorName } })
AuthorFind(r) ==
    /\ req[r].pc = "find"
    /\ LET found == AuthorByName(authors, CurrentName(req[r]))
       IN  \/ /\ found = {}
              /\ req' = [req EXCEPT ![r].pc = "create"]
           \/ /\ found # {}
              /\ req' = [req EXCEPT ![r] =
                            Resolved(@, (CHOOSE a \in found : TRUE).id)]
    /\ UNCHANGED <<store, started>>

\* prisma.author.create({ data: { name: authorName } })
AuthorCreate(r) ==
    /\ req[r].pc = "create"
    /\ LET n == CurrentName(req[r])
       IN  \/ /\ UniqueViolation(authors, n)
              /\ req' = [req EXCEPT ![r] = CreateRejected(@)]
              /\ UNCHANGED <<authors, authorSeq>>
           \/ /\ ~UniqueViolation(authors, n)
              /\ authorSeq' = authorSeq + 1
              /\ authors' = authors \cup {[id |-> authorSeq + 1, name |-> n]}
              /\ req' = [req EXCEPT ![r] = Resolved(@, authorSeq + 1)]
    /\ UNCHANGED <<books, links, bookSeq, started>>

\* POST /books: prisma.book.create with connect, then the response
BookCreate(r) ==
    /\ req[r].pc = "post_create"
    /\ LET nb == bookSeq + 1
       IN  /\ bookSeq' = nb
           /\ books' = (nb :> req[r].title) @@ books
           /\ links' = ConnectLinks(links, nb, Range(req[r].acoc))
           /\ req' = [req EXCEPT ![r] =
                         Respond(@, 200, {nb},
                                 nb :> BookAuthorNames(links', authors, nb))]
    /\ UNCHANGED <<authors, authorSeq, started>>

\* PUT /books/:id: prisma.book.update (scalars, connect, read back), then the
\* set difference
BookUpdate(r) ==
    /\ req[r].pc = "put_update"
    /\ LET q == req[r]
           b == req[r].id
       IN  \/ /\ b \notin DOMAIN books
              /\ req' = [req EXCEPT ![r] = Fail(@, "P2025")]
              /\ UNCHANGED <<books, links>>
           \/ /\ b \in DOMAIN books
              /\ books' = [books EXCEPT ![b] = q.title]
              /\ links' = ConnectLinks(links, b, Range(q.acoc))
              /\ LET current == LinkedIds(links', b)
                     rem == AuthorsToRemove(current, q.acoc)
                     q2 == IF rem # {}
                           THEN [q EXCEPT !.pc = "disconnect", !.toRemove = rem]
                           ELSE Respond(q, 200, {b},
                                        b :> AuthorNames(authors, current))
                 IN  req' = IF links' # links
                            THEN Disturb(r, b, [req EXCEPT ![r] = q2])
                            ELSE [req EXCEPT ![r] = q2]
    /\ UNCHANGED <<authors, bookSeq, authorSeq, started>>

\* PUT /books/:id: prisma.book.update with disconnect
BookDisconnect(r) ==
    /\ req[r].pc = "disconnect"
    /\ LET b == req[r].id
       IN  \/ /\ b \notin DOMAIN books
              /\ req' = [req EXCEPT ![r] = Fail(@, "P2025")]
              /\ UNCHANGED links
           \/ /\ b \in DOMAIN books
              /\ links' = DisconnectLinks(links, b, req[r].toRemove)
              /\ req' = IF links' # links
                        THEN Disturb(r, b, [req EXCEPT ![r].pc = "reread"])
                        ELSE [req EXCEPT ![r].pc = "reread"]
    /\ UNCHANGED <<books, authors, bookSeq, authorSeq, started>>

\* PUT /books/:id: prisma.book.findUnique after the disconnect, then the response
BookReread(r) ==
    /\ req[r].pc = "reread"
    /\ LET b == req[r].id
       IN  \/ /\ b \notin DOMAIN books
              /\ req' = [req EXCEPT ![r] = Fail(@, "TypeError")]
           \/ /\ b \in DOMAIN books
              /\ req' = [req EXCEPT ![r] =
                            Respond(@, 200, {b},
                                    b :> BookAuthorNames(links, authors, b))]
    /\ UNCHANGED <<store, started>>

\* DELETE /books/:id: prisma.book.delete
BookDelete(r) ==
    /\ req[r].pc = "delete"
    /\ LET b == req[r].id
       IN  \/ /\ b \notin DOMAIN books
              /\ req' = [req EXCEPT ![r] = Fail(@, "P2025")]
              /\ UNCHANGED <<books, links, authors>>
           \/ /\ b \in DOMAIN books
              /\ books' = [x \in DOMAIN books \ {b} |-> books[x]]
              /\ links' = CascadeLinks(links, b)
              /\ authors' = AuthorsAfterBookDelete(authors, links, b)
              /\ req' = Disturb(r, b, [req EXCEPT ![r] =
                                          Respond(@, 200, {b}, NoAuthors)])
    /\ UNCHANGED <<bookSeq, authorSeq, started>>

\* one store call of request r settles and its continuation runs
Step(r) ==
    \/ StoreFails(r)
    \/ Guard(r)
    \/ List(r)
    \/ GetFind(r)
    \/ AuthorFind(r)
    \/ AuthorCreate(r)
    \/ BookCreate(r)
    \/ BookUpdate(r)
    \/ BookDisconnect(r)
    \/ BookReread(r)
    \/ BookDelete(r)

Next == \E r \in Procs : Start(r) \/ Step(r)

Spec == Init /\ [][Next]_vars

\* the store answers every call, with a result or with an error
FairSpec == Spec /\ \A r \in Procs : WF_vars(Step(r))

\* ---- vocabulary of the properties ----

\* request r takes this step (a step of another request can only set r's
\* overlap mark)
Acts(r) ==
    [req[r] EXCEPT !.overlap = FALSE] # [(req'[r]) EXCEPT !.overlap = FALSE]

\* this step writes r's response
Answers(r) == req[r].pc # "done" /\ req'[r].pc = "done"

InFlight(r) == req[r].pc \notin {"idle", "done"}

ExistingId(n) == (CHOOSE a \in AuthorByName(authors, n) : TRUE).id

Orphans == {a \in authors : \A l \in links : l[2] # a.id}

\* ---- C1 ----

\* C1: whenever a PUT /books/{id} with authors = T is answered 200, the names
\* linked to the book in the store are exactly T and the response carries
\* exactly T.
C1_SetEqualityAlways ==
    [][\A r \in Procs :
        (req[r].kind = "put" /\ Answers(r) /\ req'[r].status = 200)
        => /\ BookAuthorNames(links', authors', req[r].id) = Range(req[r].names)
           /\ req'[r].respAuthors = (req[r].id :> Range(req[r].names))]_vars

\* C1 amended: the same, for every PUT during which no other request changed
\* the book's links between the PUT's connect step and its response.
C1_SetEqualityUndisturbed ==
    [][\A r \in Procs :
        (req[r].kind = "put" /\ Answers(r) /\ req'[r].status = 200
            /\ ~req'[r].overlap)
        => /\ BookAuthorNames(links', authors', req[r].id) = Range(req[r].names)
           /\ req'[r].respAuthors = (req[r].id :> Range(req[r].names))]_vars

\* an undisturbed PUT answered 200 whose response is the book's author set,
\* with an author of the store left outside it
C1_Witness ==
    \E r \in Procs :
        /\ req[r].kind = "put" /\ req[r].pc = "done" /\ req[r].status = 200
        /\ ~req[r].overlap
        /\ req[r].respAuthors =
              (req[r].id :> BookAuthorNames(links, authors, req[r].id))
        /\ \E a \in authors : <<req[r].id, a.id>> \notin links

\* ---- C2 ----

\* C2: in every reachable state no two Author records share a name, every id
\* a request has resolved is the id of the record with the name it resolved,
\* and a lookup or a creation for a name that already has a record adds no
\* record and, when the loop goes on, goes on with that record's id.
C2_UniqueAuthorNames ==
    /\ [](/\ \A a1, a2 \in authors :
                (a1.name = a2.name \/ a1.id = a2.id) => a1 = a2
          /\ \A r \in Procs : \A k \in 1..Len(req[r].acoc) :
                [id |-> req[r].acoc[k], name |-> req[r].names[k]] \in authors)
    /\ [][\A r \in Procs :
            (Acts(r) /\ req[r].pc \in {"find", "create"}
                /\ AuthorByName(authors, CurrentName(req[r])) # {})
            => /\ authors' = authors
               /\ req'[r].pc # "done" =>
                     req'[r].acoc =
                        Append(req[r].acoc, ExistingId(CurrentName(req[r])))]_vars

\* two requests in flight hold the same id for the same name
C2_Witness ==
    \E r1, r2 \in Procs :
        /\ r1 # r2
        /\ Len(req[r1].acoc) >= 1 /\ Len(req[r2].acoc) >= 1
        /\ req[r1].names[1] = req[r2].names[1]
        /\ req[r1].acoc[1] = req[r2].acoc[1]

\* ---- C3 ----

\* C3: a PUT on an existing book whose authors list is empty or absent is
\* answered at once, never with 200, with 500 unless the guard's own lookup
\* failed (500 as well), and its step changes nothing in the store.
C3_EmptyAuthorsRejected ==
    [][\A r \in Procs :
        (Acts(r) /\ req[r].kind = "put" /\ req[r].pc = "guard"
            /\ (~req[r].hasAuthors \/ Len(req[r].names) = 0)
            /\ req[r].id \in DOMAIN books)
        => /\ UNCHANGED store
           /\ req'[r].pc = "done"
           /\ req'[r].status = 500
           /\ req'[r].err \in {"validation", "store"}]_vars

\* a PUT answered 500 by the validation, the book still with its first title
C3_Witness ==
    \E r \in Procs :
        /\ req[r].kind = "put" /\ req[r].pc = "done"
        /\ req[r].status = 500 /\ req[r].err = "validation"
        /\ req[r].id \in DOMAIN books /\ books[req[r].id] = "t1"

\* ---- C4 ----

\* C4: a GET, PUT or DELETE whose guard runs while the book id is not in the
\* store is answered by that step, with 404 (500 when the lookup itself
\* failed), and the step changes nothing in the store.
C4_NotFoundNoMutation ==
    [][\A r \in Procs :
        (Acts(r) /\ req[r].pc = "guard" /\ req[r].id \notin DOMAIN books)
        => /\ UNCHANGED store
           /\ req'[r].pc = "done"
           /\ \/ req'[r].status = 404 /\ req'[r].err = "none"
              \/ req'[r].status = 500 /\ req'[r].err = "store"]_vars

\* a PUT answered 404 on a store that holds no author at all
C4_Witness ==
    \E r \in Procs :
        /\ req[r].kind = "put" /\ req[r].pc = "done" /\ req[r].status = 404
        /\ req[r].id \notin DOMAIN books
        /\ authors = {}

\* ---- C5 ----

\* C5: the step that answers a DELETE with 200 leaves the book out of the
\* store, no join row with its id, and every Author record in place; and
\* that stays so in every later state.
C5_DeleteCascades ==
    /\ [][\A r \in Procs :
            (req[r].kind = "delete" /\ Answers(r) /\ req'[r].status = 200)
            => /\ req[r].id \in DOMAIN books
               /\ req[r].id \notin DOMAIN books'
               /\ LinkedIds(links', req[r].id) = {}
               /\ authors \subseteq authors']_vars
    /\ [](\A r \in Procs :
            (req[r].kind = "delete" /\ req[r].pc = "done" /\ req[r].status = 200)
            => /\ req[r].id \notin DOMAIN books
               /\ LinkedIds(links, req[r].id) = {})

\* a DELETE answered 200 that left an author linked to no book
C5_Witness ==
    \E r \in Procs :
        /\ req[r].kind = "delete" /\ req[r].pc = "done" /\ req[r].status = 200
        /\ Orphans # {}

\* ---- C6 ----

\* the step answers r's POST with 200 and adds one book under an id no book
\* and no join row had, linked to exactly the names of the request's list
\* (none for [] or no list); the response carries those names and the store
\* holds one Author record per name
CreatedAsAsked(r) ==
    /\ req'[r].status = 200
    /\ \E nb \in DOMAIN books' :
          /\ nb \notin DOMAIN books
          /\ \A b \in DOMAIN books : b < nb
          /\ LinkedIds(links, nb) = {}
          /\ DOMAIN books' = DOMAIN books \cup {nb}
          /\ BookAuthorNames(links', authors', nb) = Range(req[r].names)
          /\ req'[r].respAuthors = (nb :> Range(req[r].names))
    /\ \A n \in Range(req[r].names) :
          Cardinality(AuthorByName(authors', n)) = 1

\* C6: every POST the store does not fail on (no connectivity error) is
\* answered 200 with the book created as asked.
C6_CreateAlwaysSucceeds ==
    [][\A r \in Procs :
        (req[r].kind = "post" /\ Answers(r) /\ req'[r].err # "store")
        => CreatedAsAsked(r)]_vars

\* C6 amended: a POST is answered 200 with the book created as asked, unless
\* a store call was rejected, by a connectivity error or by the unique index
\* on Author.name when another request created one of its names first; it
\* is then answered 500 and creates no book.
C6_CreateLinksNames ==
    [][\A r \in Procs :
        (req[r].kind = "post" /\ Answers(r))
        => \/ /\ req'[r].status = 500
              /\ req'[r].err \in {"store", "P2002"}
              /\ UNCHANGED <<books, links, authors>>
           \/ /\ req'[r].err = "none"
              /\ CreatedAsAsked(r)]_vars

\* a POST answered 200 with a book of two authors
C6_Witness ==
    \E r \in Procs :
        /\ req[r].kind = "post" /\ req[r].pc = "done" /\ req[r].status = 200
        /\ \E b \in req[r].respBooks : Cardinality(req[r].respAuthors[b]) = 2

\* ---- C7 ----

\* C7: no store step of a PUT takes its book from some authors to none,
\* however the steps of several PUTs on the book interleave.
C7_NeverEmptyAlways ==
    [][\A r \in Procs :
        (Acts(r) /\ req[r].kind = "put"
            /\ req[r].pc \in {"put_update", "disconnect"}
            /\ LinkedIds(links, req[r].id) # {})
        => LinkedIds(links', req[r].id) # {}]_vars

\* C7 amended: no store step of a PUT takes its book from some authors to
\* none, provided no other request changed the book's links after that PUT's
\* connect step.
C7_NeverEmptyUndisturbed ==
    [][\A r \in Procs :
        (Acts(r) /\ req[r].kind = "put"
            /\ req[r].pc \in {"put_update", "disconnect"}
            /\ ~req[r].overlap
            /\ LinkedIds(links, req[r].id) # {})
        => LinkedIds(links', req[r].id) # {}]_vars

\* an undisturbed PUT has connected and disconnected, and the book has authors
C7_Witness ==
    \E r \in Procs :
        /\ req[r].kind = "put" /\ req[r].pc = "reread" /\ ~req[r].overlap
        /\ req[r].toRemove # {}
        /\ LinkedIds(links, req[r].id) # {}

\* ---- C8 ----

\* C8: a creation the unique index rejects is followed by a second
\* lookup, and the request goes on with the existing author's id.
C8_RetryAfterConflict ==
    [][\A r \in Procs :
        (Acts(r) /\ req[r].pc = "create"
            /\ AuthorByName(authors, CurrentName(req[r])) # {}
            /\ req'[r].err # "store")
        => /\ req'[r].pc # "done"
           /\ req'[r].acoc =
                 Append(req[r].acoc, ExistingId(CurrentName(req[r])))]_vars

\* C8 amended: a creation the unique index rejects ends the request with
\* 500 and no second lookup; the store keeps the single record of that name.
C8_ConflictIsAnError ==
    [][\A r \in Procs :
        (Acts(r) /\ req[r].pc = "create"
            /\ AuthorByName(authors, CurrentName(req[r])) # {}
            /\ req'[r].err # "store")
        => /\ req'[r].pc = "done"
           /\ req'[r].status = 500
           /\ req'[r].err = "P2002"
           /\ UNCHANGED store
           /\ Cardinality(AuthorByName(authors, CurrentName(req[r]))) = 1]_vars

\* a request ended by the unique index
C8_Witness ==
    \E r \in Procs :
        /\ req[r].pc = "done" /\ req[r].status = 500 /\ req[r].err = "P2002"
        /\ authors # {}

\* ---- C9 ----

\* C9: every request in flight is eventually answered; an answered request
\* has exactly one response, with status 200, 404 or 500; a request in
\* flight has none yet.
C9_AnsweredOnce ==
    /\ \A r \in Procs : InFlight(r) ~> (req[r].pc = "done")
    /\ [](\A r \in Procs :
            /\ req[r].pc = "done" =>
                  req[r].respCount = 1 /\ req[r].status \in {200, 404, 500}
            /\ req[r].pc # "done" => req[r].respCount = 0)

\* a GET that passed the guard and then found its book deleted: 500
C9_Witness ==
    \E r \in Procs :
        /\ req[r].kind = "get" /\ req[r].pc = "done"
        /\ req[r].status = 500 /\ req[r].err = "TypeError"
        /\ req[r].respCount = 1

\* ---- C10 ----

\* C10: no step removes or changes an Author record.
C10_AuthorsOnlyGrow == [][authors \subseteq authors']_vars

\* the only request so far, a POST, failed after creating an author, and the
\* author is in the store, linked to nothing
C10_Witness ==
    /\ started = 1
    /\ bookSeq = 0
    /\ Orphans # {}
    /\ \E r \in Procs :
        req[r].kind = "post" /\ req[r].pc = "done" /\ req[r].status = 500

====
